---- MODULE Spec2Model ----
(***************************************************************************)
(* Model of src/02/be/ocr.py: one invocation of the OCR command.           *)
(*                                                                         *)
(* The script is sequential.  Each action below is one statement group of  *)
(* the script, split at the points where a library call can raise, so that *)
(* every exit path of the try/except blocks is a path of the model.        *)
(*                                                                         *)
(* Environment assumptions: os.remove, print and json.dumps do not raise;  *)
(* the OCR engine returns well-formed detection lines when it returns any. *)
(* Strings are sequences of one-character strings.  A Python value that    *)
(* can be None or a list is a record [isNone, items].  A path that is None *)
(* is the empty sequence (both are falsy in `if inverted_path:`).          *)
(* Confidences are fixed-point integers.  A JSON payload is the sequence   *)
(* of its elements (records), not its text.                                *)
(***************************************************************************)
EXTENDS Integers, Sequences, FiniteSets, TLC

(* -------- bounds of the model -------- *)
MaxDet == 2        \* most detection lines the engine returns for one variant
MaxConf == 2       \* confidences are 1..MaxConf
MaxPixels == 2     \* most pixels in either half of the histogram

(* -------- program constants -------- *)
DefaultMax == 1600 \* max_width = 1600 / max_height = 1600

(* -------- Python values -------- *)
PyNone == [isNone |-> TRUE, items |-> <<>>]
PyList(s) == [isNone |-> FALSE, items |-> s]
Truthy(x) == ~x.isNone /\ Len(x.items) > 0
\* `r and r[0]` as a condition
HasDetections(r) == Truthy(r) /\ Truthy(r.items[1])

Str_enhanced == <<"_", "e", "n", "h", "a", "n", "c", "e", "d">>
Str_inverted == <<"_", "i", "n", "v", "e", "r", "t", "e", "d">>
NonePath == <<>>

(* -------- int(sys.argv[i]) -------- *)
Digits == {"0", "1", "2", "3", "4", "5", "6", "7", "8", "9"}
DigitVal(c) ==
    CASE c = "0" -> 0 [] c = "1" -> 1 [] c = "2" -> 2 [] c = "3" -> 3
      [] c = "4" -> 4 [] c = "5" -> 5 [] c = "6" -> 6 [] c = "7" -> 7
      [] c = "8" -> 8 [] c = "9" -> 9

RECURSIVE DigitsValue(_)
DigitsValue(s) ==
    IF s = <<>> THEN 0
    ELSE 10 * DigitsValue(SubSeq(s, 1, Len(s) - 1)) + DigitVal(s[Len(s)])

\* ok = FALSE is ValueError
ParseInt(s) ==
    LET body == IF s # <<>> /\ s[1] \in {"-", "+"} THEN Tail(s) ELSE s
        neg == s # <<>> /\ s[1] = "-"
    IN  IF body # <<>> /\ \A i \in 1..Len(body) : body[i] \in Digits
        THEN [ok |-> TRUE,
              val |-> IF neg THEN 0 - DigitsValue(body) ELSE DigitsValue(body)]
        ELSE [ok |-> FALSE, val |-> 0]

(* -------- os.path.splitext -------- *)
IndexSet(p, c) == {i \in 1..Len(p) : p[i] = c}
Max0(S) == IF S = {} THEN 0 ELSE CHOOSE m \in S : \A x \in S : x <= m
\* position of the dot that starts the extension, 0 when there is none
ExtDot(p) ==
    LET sepIndex == Max0(IndexSet(p, "/"))
        dotIndex == Max0(IndexSet(p, "."))
    IN  IF dotIndex > sepIndex
           /\ \E k \in (sepIndex + 1)..(dotIndex - 1) : p[k] # "."
        THEN dotIndex ELSE 0
splitext(p) ==
    IF ExtDot(p) = 0 THEN <<p, <<>>>>
    ELSE <<SubSeq(p, 1, ExtDot(p) - 1), SubSeq(p, ExtDot(p), Len(p))>>

enhanced_path_of(p) == splitext(p)[1] \o Str_enhanced \o splitext(p)[2]
inverted_path_of(p) == splitext(p)[1] \o Str_inverted \o splitext(p)[2]

(* -------- inputs -------- *)
ProgName == <<"o">>
\* image paths: with an extension, without, a dot-file, a dot in the directory
ImagePaths == {<<"a", ".", "p">>, <<"a">>, <<".", "a">>, <<"d", ".", "x", "/", "a">>}
\* values of the optional arguments: "800" and two unparsable ones
ArgStrings == {<<"8", "0", "0">>, <<"8", "x">>, <<>>}
Argvs ==
    {<<ProgName>>}
    \cup {<<ProgName, p>> : p \in ImagePaths}
    \cup {<<ProgName, p, w>> : p \in ImagePaths, w \in ArgStrings}
    \cup {<<ProgName, p, w, h>> : p \in ImagePaths, w \in ArgStrings, h \in ArgStrings}
\* (width, height) of the source image
ImgSizes == {<<1000, 1000>>, <<2000, 1000>>}

(* -------- what the OCR engine can return -------- *)
Confidences == 1..MaxConf
\* one detection line: [coords, (text, confidence)]
Lines == {<<"box", <<"txt", c>>>> : c \in Confidences}
Batches == UNION {[1..n -> Lines] : n \in 1..MaxDet}
EngineResults ==
    {PyNone, PyList(<<>>), PyList(<<PyNone>>), PyList(<<PyList(<<>>)>>)}
    \cup {PyList(<<PyList(b)>>) : b \in Batches}

VARIABLES
    pc,                 \* position in the script
    argv,               \* sys.argv
    fs,                 \* the files on disk: path -> content
    stdout, stderr,     \* what was printed, one entry per print call
    exit_status,        \* the process's exit status
    image_path, max_width, max_height,
    img_size, resized,  \* preprocess_image: img.size, whether img was resized
    dark_pixels, light_pixels, detect_failed,   \* detect_text_color
    pre_invert_needed,  \* preprocess_image's local invert_needed
    enhanced_path, inverted_path, invert_needed,    \* process_image
    result_enhanced, result_inverted,
    choice, result, json_result,
    exc,                \* the exception process_image caught, "none" if none
    calls               \* the pipeline functions entered so far

args == <<argv, image_path, max_width, max_height>>
io == <<stdout, stderr>>
pre_locals == <<img_size, resized, dark_pixels, light_pixels, detect_failed,
                pre_invert_needed>>
pre_result == <<enhanced_path, inverted_path, invert_needed>>
ocr_results == <<result_enhanced, result_inverted>>
selection == <<choice, result, json_result>>
vars == <<pc, fs, exit_status, args, io, pre_locals, pre_result, ocr_results,
          selection, exc, calls>>

Init ==
    /\ pc = "main"
    /\ argv \in Argvs
    /\ fs = [p \in (IF Len(argv) >= 2 THEN {argv[2]} ELSE {}) |-> "source"]
    /\ stdout = <<>>
    /\ stderr = <<>>
    /\ exit_status = 0
    /\ image_path = NonePath
    /\ max_width = DefaultMax
    /\ max_height = DefaultMax
    /\ img_size = <<0, 0>>
    /\ resized = FALSE
    /\ dark_pixels = 0
    /\ light_pixels = 0
    /\ detect_failed = FALSE
    /\ pre_invert_needed = FALSE
    /\ enhanced_path = NonePath
    /\ inverted_path = NonePath
    /\ invert_needed = FALSE
    /\ result_enhanced = PyNone
    /\ result_inverted = PyNone
    /\ choice = "unset"
    /\ result = PyNone
    /\ json_result = <<>>
    /\ exc = "none"
    /\ calls = {}

(* -------- files -------- *)
exists(path) == path \in DOMAIN fs
save(f, path, content) ==
    [p \in DOMAIN f \cup {path} |-> IF p = path THEN content ELSE f[p]]
remove(f, path) == [p \in DOMAIN f \ {path} |-> f[p]]

(* -------- __main__ -------- *)
\* bug variant: the argument count is checked off by one
MissingArgument_off_by_one(av) == Len(av) < 3

MissingArgument(av) == Len(av) < 2
\* sys.argv[i] (0-based) parsed as an int, the default kept on ValueError
size_argument(av, i) ==
    IF Len(av) >= i + 1 /\ ParseInt(av[i + 1]).ok
    THEN ParseInt(av[i + 1]).val
    ELSE DefaultMax

MainMissingArgument ==
    /\ pc = "main"
    /\ MissingArgument(argv)
    /\ stdout' = Append(stdout, <<[error |-> "No image path provided"]>>)
    /\ exit_status' = 1
    /\ pc' = "exit"
    /\ UNCHANGED <<fs, args, stderr, pre_locals, pre_result, ocr_results,
                   selection, exc, calls>>

Main ==
    /\ pc = "main"
    /\ ~MissingArgument(argv)
    /\ image_path' = argv[2]
    /\ max_width' = size_argument(argv, 2)
    /\ max_height' = size_argument(argv, 3)
    /\ calls' = calls \cup {"process_image", "preprocess_image"}
    /\ pc' = "pre_open"
    /\ UNCHANGED <<argv, fs, exit_status, io, pre_locals, pre_result,
                   ocr_results, selection, exc>>

(* -------- detect_text_color -------- *)
\* the line the except branch prints; every printed entry is a sequence of records
detect_warning == <<[warning |-> "Error detecting text color"]>>

\* bug variant: the comparison is not strict
detect_text_color_not_strict(readable, dark, light) ==
    IF readable THEN light <= dark ELSE FALSE

\* readable = FALSE: opening or decoding the image raised
detect_text_color(readable, dark, light) ==
    IF readable THEN light < dark ELSE FALSE

(* -------- preprocess_image -------- *)
needs_resize(size, mw, mh) == size[1] > mw \/ size[2] > mh

preprocess_error == <<[error |-> "Error preprocessing image"]>>
\* bug variant: file=sys.stderr is missing from the print
print_preprocess_error_to_stdout(so, se) == <<Append(so, preprocess_error), se>>

\* the except branch's print: the streams <<stdout, stderr>> after it
print_preprocess_error(so, se) == <<so, Append(se, preprocess_error)>>

PreOpen ==
    /\ pc = "pre_open"
    /\ exists(image_path)
    /\ \E size \in ImgSizes :
          /\ img_size' = size
          /\ resized' = needs_resize(size, max_width, max_height)
    /\ pc' = "pre_detect"
    /\ UNCHANGED <<fs, exit_status, args, io, dark_pixels, light_pixels,
                   detect_failed, pre_invert_needed, pre_result, ocr_results,
                   selection, exc, calls>>

DetectTextColor ==
    /\ pc = "pre_detect"
    /\ \E dark \in 0..MaxPixels, light \in 0..MaxPixels :
          /\ dark + light >= 1
          /\ dark_pixels' = dark
          /\ light_pixels' = light
          /\ pre_invert_needed' = detect_text_color(TRUE, dark, light)
    /\ calls' = calls \cup {"detect_text_color"}
    /\ pc' = "pre_enhance"
    /\ UNCHANGED <<fs, exit_status, args, io, img_size, resized, detect_failed,
                   pre_result, ocr_results, selection, exc>>

DetectTextColorFails ==
    /\ pc = "pre_detect"
    /\ detect_failed' = TRUE
    /\ stderr' = Append(stderr, detect_warning)
    /\ pre_invert_needed' = detect_text_color(FALSE, dark_pixels, light_pixels)
    /\ calls' = calls \cup {"detect_text_color"}
    /\ pc' = "pre_enhance"
    /\ UNCHANGED <<fs, exit_status, args, stdout, img_size, resized, dark_pixels,
                   light_pixels, pre_result, ocr_results, selection, exc>>

PreEnhance ==
    /\ pc = "pre_enhance"
    /\ pc' = "pre_save_enhanced"
    /\ UNCHANGED <<fs, exit_status, args, io, pre_locals, pre_result,
                   ocr_results, selection, exc, calls>>

PreSaveEnhanced ==
    /\ pc = "pre_save_enhanced"
    /\ fs' = save(fs, enhanced_path_of(image_path), "enhanced")
    /\ pc' = "pre_save_inverted"
    /\ UNCHANGED <<exit_status, args, io, pre_locals, pre_result, ocr_results,
                   selection, exc, calls>>

\* preprocess_image returns: its locals and detect_text_color's are gone
locals_dropped ==
    /\ img_size' = <<0, 0>>
    /\ resized' = FALSE
    /\ dark_pixels' = 0
    /\ light_pixels' = 0
    /\ detect_failed' = FALSE
    /\ pre_invert_needed' = FALSE

\* the second save and the return
PreSaveInverted ==
    /\ pc = "pre_save_inverted"
    /\ fs' = save(fs, inverted_path_of(image_path), "inverted")
    /\ enhanced_path' = enhanced_path_of(image_path)
    /\ inverted_path' = inverted_path_of(image_path)
    /\ invert_needed' = pre_invert_needed
    /\ locals_dropped
    /\ pc' = "ocr_init"
    /\ UNCHANGED <<exit_status, args, io, ocr_results, selection, exc, calls>>

preprocess_failed ==
    /\ stdout' = print_preprocess_error(stdout, stderr)[1]
    /\ stderr' = print_preprocess_error(stdout, stderr)[2]
    /\ enhanced_path' = image_path
    /\ inverted_path' = NonePath
    /\ invert_needed' = FALSE
    /\ locals_dropped
    /\ pc' = "ocr_init"
    /\ UNCHANGED <<exit_status, args, ocr_results, selection, exc, calls>>

\* Image.open, resize, enhance, invert or one of the two saves raised; a save
\* that raises is taken to leave no file at its path
PreprocessFails ==
    /\ pc \in {"pre_open", "pre_enhance", "pre_save_enhanced", "pre_save_inverted"}
    /\ UNCHANGED fs
    /\ preprocess_failed

(* -------- process_image -------- *)
OcrInit ==
    /\ pc = "ocr_init"
    /\ calls' = calls \cup {"PaddleOCR"}
    /\ pc' = "ocr_enhanced"
    /\ UNCHANGED <<fs, exit_status, args, io, pre_locals, pre_result,
                   ocr_results, selection, exc>>

OcrEnhanced ==
    /\ pc = "ocr_enhanced"
    /\ \E r \in EngineResults : result_enhanced' = r
    /\ calls' = calls \cup {"ocr"}
    /\ pc' = "ocr_inverted"
    /\ UNCHANGED <<fs, exit_status, args, io, pre_locals, pre_result,
                   result_inverted, selection, exc>>

OcrInverted ==
    /\ pc = "ocr_inverted"
    /\ IF inverted_path # NonePath
       THEN \E r \in EngineResults : result_inverted' = r
       ELSE result_inverted' = PyNone
    /\ pc' = "cleanup"
    /\ UNCHANGED <<fs, exit_status, args, io, pre_locals, pre_result,
                   result_enhanced, selection, exc, calls>>

\* the PaddleOCR constructor or one of the two ocr.ocr calls raised
EngineRaises ==
    /\ \/ pc \in {"ocr_init", "ocr_enhanced"}
       \/ pc = "ocr_inverted" /\ inverted_path # NonePath
    /\ exc' = pc
    /\ calls' = calls \cup {IF pc = "ocr_init" THEN "PaddleOCR" ELSE "ocr"}
    /\ pc' = "except"
    /\ UNCHANGED <<fs, exit_status, args, io, pre_locals, pre_result,
                   ocr_results, selection>>

\* bug variant: the comparison with image_path is missing
remove_enhanced_unguarded(ep, ip) == exists(ep)

remove_enhanced(ep, ip) == ep # ip /\ exists(ep)
remove_inverted(vp) == vp # NonePath /\ exists(vp)
Cleanup ==
    /\ pc = "cleanup"
    /\ LET f1 == IF remove_enhanced(enhanced_path, image_path)
                 THEN remove(fs, enhanced_path) ELSE fs
       IN  fs' = IF remove_inverted(inverted_path)
                 THEN remove(f1, inverted_path) ELSE f1
    /\ pc' = "select"
    /\ UNCHANGED <<exit_status, args, io, pre_locals, pre_result, ocr_results,
                   selection, exc, calls>>

count(r) == Len(r.items[1].items)
RECURSIVE SumConf(_)
SumConf(lines) ==
    IF lines = <<>> THEN 0 ELSE lines[1][2][2] + SumConf(Tail(lines))
conf(r) == IF count(r) > 0 THEN SumConf(r.items[1].items) ELSE 0

\* bug variant: the counts are compared before the colour bias
select_counts_first(re, ri, inv) ==
    IF HasDetections(re) /\ ~HasDetections(ri) THEN "enhanced"
    ELSE IF HasDetections(ri) /\ ~HasDetections(re) THEN "inverted"
    ELSE IF Truthy(re) /\ Truthy(ri) /\ Truthy(re.items[1]) /\ Truthy(ri.items[1])
    THEN IF count(ri) > count(re) THEN "inverted"
         ELSE IF count(re) > count(ri) THEN "enhanced"
         ELSE IF inv /\ count(ri) > 0 THEN "inverted"
         ELSE IF conf(ri) > conf(re) THEN "inverted"
         ELSE "enhanced"
    ELSE "empty"

\* bug variant: the colour bias is applied before the lone-batch rules
select_bias_first(re, ri, inv) ==
    IF inv /\ Truthy(ri) THEN "inverted"
    ELSE IF HasDetections(re) /\ ~HasDetections(ri) THEN "enhanced"
    ELSE IF HasDetections(ri) /\ ~HasDetections(re) THEN "inverted"
    ELSE IF Truthy(re) /\ Truthy(ri) /\ Truthy(re.items[1]) /\ Truthy(ri.items[1])
    THEN IF count(ri) > count(re) THEN "inverted"
         ELSE IF count(re) > count(ri) THEN "enhanced"
         ELSE IF conf(ri) > conf(re) THEN "inverted"
         ELSE "enhanced"
    ELSE "empty"

\* bug variant: the confidence comparison is not strict
select_conf_not_strict(re, ri, inv) ==
    IF HasDetections(re) /\ ~HasDetections(ri) THEN "enhanced"
    ELSE IF HasDetections(ri) /\ ~HasDetections(re) THEN "inverted"
    ELSE IF Truthy(re) /\ Truthy(ri) /\ Truthy(re.items[1]) /\ Truthy(ri.items[1])
    THEN IF inv /\ count(ri) > 0 THEN "inverted"
         ELSE IF count(ri) > count(re) THEN "inverted"
         ELSE IF count(re) > count(ri) THEN "enhanced"
         ELSE IF conf(ri) >= conf(re) THEN "inverted"
         ELSE "enhanced"
    ELSE "empty"

\* which branch of the if/elif chain assigns result
select(re, ri, inv) ==
    IF HasDetections(re) /\ ~HasDetections(ri) THEN "enhanced"
    ELSE IF HasDetections(ri) /\ ~HasDetections(re) THEN "inverted"
    ELSE IF Truthy(re) /\ Truthy(ri) /\ Truthy(re.items[1]) /\ Truthy(ri.items[1])
    THEN IF inv /\ count(ri) > 0 THEN "inverted"
         ELSE IF count(ri) > count(re) THEN "inverted"
         ELSE IF count(re) > count(ri) THEN "enhanced"
         ELSE IF conf(ri) > conf(re) THEN "inverted"
         ELSE "enhanced"
    ELSE "empty"

selected_result(c, re, ri) ==
    CASE c = "enhanced" -> re
      [] c = "inverted" -> ri
      [] c = "empty" -> PyList(<<PyNone>>)

Select ==
    /\ pc = "select"
    /\ choice' = select(result_enhanced, result_inverted, invert_needed)
    /\ result' = selected_result(choice', result_enhanced, result_inverted)
    /\ pc' = "convert"
    /\ UNCHANGED <<fs, exit_status, args, io, pre_locals, pre_result,
                   ocr_results, json_result, exc, calls>>

\* float(confidence) keeps the value
output_record(line) ==
    [coords |-> line[1], text |-> line[2][1], confidence |-> line[2][2]]
to_json(r) ==
    IF HasDetections(r)
    THEN [i \in 1..Len(r.items[1].items) |-> output_record(r.items[1].items[i])]
    ELSE <<>>

Convert ==
    /\ pc = "convert"
    /\ json_result' = to_json(result)
    /\ pc' = "print"
    /\ UNCHANGED <<fs, exit_status, args, io, pre_locals, pre_result,
                   ocr_results, choice, result, exc, calls>>

\* bug variant: an empty result is reported as an error
printed_payload_error_when_empty(j) ==
    IF j = <<>> THEN <<[error |-> "No text detected"]>> ELSE j

\* print(json.dumps(json_result))
printed_payload(j) == j
PrintResult ==
    /\ pc = "print"
    /\ stdout' = Append(stdout, printed_payload(json_result))
    /\ pc' = "exit"
    /\ UNCHANGED <<fs, exit_status, args, stderr, pre_locals, pre_result,
                   ocr_results, selection, exc, calls>>

\* except Exception as e: print(json.dumps([{"error": str(e)}]))
Except ==
    /\ pc = "except"
    /\ stdout' = Append(stdout, <<[error |-> exc]>>)
    /\ pc' = "exit"
    /\ UNCHANGED <<fs, exit_status, args, stderr, pre_locals, pre_result,
                   ocr_results, selection, exc, calls>>

Next ==
    \/ MainMissingArgument
    \/ Main
    \/ PreOpen
    \/ DetectTextColor
    \/ DetectTextColorFails
    \/ PreEnhance
    \/ PreSaveEnhanced
    \/ PreSaveInverted
    \/ PreprocessFails
    \/ OcrInit
    \/ OcrEnhanced
    \/ OcrInverted
    \/ EngineRaises
    \/ Cleanup
    \/ Select
    \/ Convert
    \/ PrintResult
    \/ Except

Spec == Init /\ [][Next]_vars

(* ======================= the claims ======================= *)
Exited == pc = "exit"
\* process_image reached its selection step
Selected == choice # "unset"
BothPopulated == HasDetections(result_enhanced) /\ HasDetections(result_inverted)
IsDetection(e) == DOMAIN e = {"coords", "text", "confidence"}
IsError(e) == DOMAIN e = {"error"}
WellFormedPayload(p) ==
    \/ \A i \in 1..Len(p) : IsDetection(p[i])
    \/ Len(p) = 1 /\ IsError(p[1])

\* C1 (as claimed): once an invocation has completed, neither the _enhanced
\* nor the _inverted file derived from the source path exists, on any exit
\* path.
C1_NoTemporaryFileLeft ==
    Exited /\ Len(argv) >= 2 =>
        /\ ~exists(enhanced_path_of(argv[2]))
        /\ ~exists(inverted_path_of(argv[2]))

\* C2: with both batches populated and the colour bias LightTextOnDark
\* (invert_needed), the inverted batch is selected whatever the counts and the
\* confidence sums are.
C2_BiasBeforeCounts ==
    Selected /\ BothPopulated /\ invert_needed =>
        choice = "inverted" /\ result = result_inverted

C2_Witness ==
    /\ Exited /\ Selected /\ BothPopulated /\ invert_needed
    /\ count(result_enhanced) > count(result_inverted)
    /\ conf(result_enhanced) > conf(result_inverted)
    /\ choice = "inverted"
    /\ stdout = <<to_json(result_inverted)>>

\* C3: when both engine calls returned and neither batch has detections
\* (None, [], [None] or [[]], in any combination), the one payload printed is
\* the empty array, not an error object, whatever invert_needed is.
C3_NoDetectionsPrintsEmptyArray ==
    /\ Exited /\ Len(argv) >= 2 /\ exc = "none"
    /\ ~HasDetections(result_enhanced) /\ ~HasDetections(result_inverted)
    => stdout = << <<>> >>

C3_Witness ==
    /\ Exited /\ exc = "none" /\ invert_needed
    /\ result_enhanced = PyList(<<PyNone>>)
    /\ result_inverted = PyList(<<PyList(<<>>)>>)
    /\ choice = "empty"
    /\ stdout = << <<>> >>

\* C4 (as claimed): when the engine call returned for the enhanced variant
\* and raised for the inverted one, the inverted batch counts as absent: no
\* error object is printed and the payload is what the enhanced batch alone
\* gives.
C4_EngineFailureOnOneVariantIsAbsorbed ==
    Exited /\ exc = "ocr_inverted" =>
        /\ \A k \in 1..Len(stdout[1]) : ~IsError(stdout[1][k])
        /\ stdout = <<to_json(result_enhanced)>>

\* C5: a completed invocation has written exactly one payload to standard
\* output, all detection objects or one error object alone; nothing is written
\* before; the two diagnostics are on the diagnostic stream and never on
\* standard output.
C5_OnePayloadOnStdout ==
    /\ Exited => Len(stdout) = 1 /\ WellFormedPayload(stdout[1])
    /\ ~Exited => stdout = <<>>
    /\ \A i \in 1..Len(stdout) : stdout[i] \notin {detect_warning, preprocess_error}
    /\ \A i \in 1..Len(stderr) : stderr[i] \in {detect_warning, preprocess_error}
    /\ pc \in {"ocr_init", "ocr_enhanced", "ocr_inverted", "cleanup"}
       /\ enhanced_path = image_path
       => \E i \in 1..Len(stderr) : stderr[i] = preprocess_error

C5_Witness ==
    /\ Exited
    /\ stderr = <<detect_warning, preprocess_error>>
    /\ Len(stdout) = 1 /\ Len(stdout[1]) = 2
    /\ \A k \in 1..2 : IsDetection(stdout[1][k])

\* C6: right after detect_text_color returned, its value is True exactly when
\* the image was read and light_pixels < dark_pixels; equal masses give
\* False; a failed read gives False, a warning on the diagnostic stream, and
\* the pipeline goes on (nothing printed, no exception).
C6_DetectTextColor ==
    pc = "pre_enhance" =>
        /\ pre_invert_needed <=> (~detect_failed /\ light_pixels < dark_pixels)
        /\ detect_failed =>
              stderr = <<detect_warning>> /\ stdout = <<>> /\ exc = "none"

C6_Witness ==
    /\ pc = "pre_enhance" /\ ~detect_failed
    /\ dark_pixels = 1 /\ light_pixels = 1
    /\ ~pre_invert_needed

\* C7: the exit status is failure exactly when the image path is missing;
\* then the output is the one "No image path provided" error and no pipeline
\* step ran; an unparsable max_width or max_height keeps 1600, a parsable one
\* is used.
C7_ExitStatus ==
    Exited =>
        /\ exit_status = (IF Len(argv) < 2 THEN 1 ELSE 0)
        /\ Len(argv) < 2 =>
              /\ stdout = << <<[error |-> "No image path provided"]>> >>
              /\ stderr = <<>> /\ calls = {} /\ DOMAIN fs = {}
              /\ choice = "unset" /\ exc = "none"
        /\ Len(argv) >= 2 => "process_image" \in calls
        /\ max_width = (IF Len(argv) >= 3 /\ argv[3] = <<"8", "0", "0">>
                        THEN 800 ELSE 1600)
        /\ max_height = (IF Len(argv) >= 4 /\ argv[4] = <<"8", "0", "0">>
                         THEN 800 ELSE 1600)

C7_Witness ==
    /\ Exited /\ Len(argv) = 4
    /\ argv[3] = <<"8", "x">> /\ argv[4] = <<"8", "0", "0">>
    /\ max_width = 1600 /\ max_height = 800
    /\ exc = "ocr_enhanced" /\ IsError(stdout[1][1])
    /\ exit_status = 0

\* C8: when exactly one batch has detections, it is selected, whatever
\* invert_needed is.
C8_LoneBatchSelected ==
    Selected =>
        /\ HasDetections(result_enhanced) /\ ~HasDetections(result_inverted)
           => choice = "enhanced" /\ result = result_enhanced
        /\ HasDetections(result_inverted) /\ ~HasDetections(result_enhanced)
           => choice = "inverted" /\ result = result_inverted

C8_Witness ==
    /\ Selected /\ invert_needed
    /\ HasDetections(result_enhanced)
    /\ result_inverted = PyList(<<PyNone>>)
    /\ choice = "enhanced"

\* C9: with both batches populated and the colour bias DarkTextOnLight, the
\* batch with strictly more detections is selected; on equal counts the
\* inverted batch only if its confidence sum is strictly greater, the enhanced
\* batch otherwise.
C9_CountsThenConfidence ==
    Selected /\ BothPopulated /\ ~invert_needed =>
        LET ce == Len(result_enhanced.items[1].items)
            ci == Len(result_inverted.items[1].items)
            se == SumConf(result_enhanced.items[1].items)
            si == SumConf(result_inverted.items[1].items)
        IN  /\ ci > ce => choice = "inverted"
            /\ ce > ci => choice = "enhanced"
            /\ ci = ce /\ si > se => choice = "inverted"
            /\ ci = ce /\ si <= se => choice = "enhanced"

C9_Witness ==
    /\ Selected /\ BothPopulated /\ ~invert_needed
    /\ count(result_enhanced) = 2 /\ count(result_inverted) = 2
    /\ conf(result_enhanced) = conf(result_inverted)
    /\ choice = "enhanced"

\* C10: the source image is on disk with its content in every state; the
\* derived paths differ from the source path; in the degraded path
\* (enhanced_path = image_path) there is no inverted path and no bias.
C10_SourceUntouched ==
    Len(argv) >= 2 =>
        /\ exists(argv[2]) /\ fs[argv[2]] = "source"
        /\ enhanced_path_of(argv[2]) # argv[2]
        /\ inverted_path_of(argv[2]) # argv[2]
        /\ pc \notin {"main", "pre_open"} /\ enhanced_path = image_path =>
              inverted_path = NonePath /\ ~invert_needed

C10_Witness ==
    /\ Exited /\ Selected
    /\ enhanced_path = image_path /\ image_path = argv[2]
    /\ DOMAIN fs = {argv[2]} /\ fs[argv[2]] = "source"

====
